---- MODULE Spec2Model ----
(***************************************************************************)
(* Model of google/cloud/security/common/gcp_type/resource_util.py:        *)
(* the module-level table _RESOURCE_TYPE_MAP and the four functions        *)
(* create_resource, pluralize, type_from_name and load_all.                *)
(*                                                                         *)
(* Python values are tagged records; a str carries its characters as a     *)
(* sequence of one-character strings so that lower() and startswith() are  *)
(* computed, not assumed.                                                  *)
(***************************************************************************)
EXTENDS Integers, Sequences, FiniteSets, TLC

VARIABLES
    resource_type_map,  \* the dict object bound to _RESOURCE_TYPE_MAP
    call,               \* the call made last: [op, args, kwargs, env]
    outcome,            \* how it ended: [kind, val]
    constructed,        \* constructor invocations made by the last call
    logged,             \* log records emitted by the last call
    memo                \* one remembered call, its outcome and its age, or NoMemo

vars == <<resource_type_map, call, outcome, constructed, logged, memo>>

----------------------------------------------------------------------------
(* Bounds *)

MaxIdLen == 1

----------------------------------------------------------------------------
(* Python values *)

Str(chars) == [tag |-> "str", s |-> chars]

None == [tag |-> "None", s |-> <<>>]

\* [] : a list, which has no hash
EmptyList == [tag |-> "list", s |-> <<>>]

\* 5 : hashable, true in a condition, and not a str
Int5 == [tag |-> "int", s |-> <<"5">>]

\* hash(v) succeeds (dict membership test at lines 62 and 81)
Hashable(v) == v.tag # "list"

\* bool(v), as used by "if not resource_name" at line 96
Truthy(v) ==
    CASE v.tag = "None" -> FALSE
      [] v.tag = "int"  -> TRUE
      [] OTHER          -> v.s # <<>>

\* the lower-case letter of each upper-case ASCII letter
LowerOf ==
    "A" :> "a" @@ "B" :> "b" @@ "C" :> "c" @@ "D" :> "d" @@ "E" :> "e" @@
    "F" :> "f" @@ "G" :> "g" @@ "H" :> "h" @@ "I" :> "i" @@ "J" :> "j" @@
    "K" :> "k" @@ "L" :> "l" @@ "M" :> "m" @@ "N" :> "n" @@ "O" :> "o" @@
    "P" :> "p" @@ "Q" :> "q" @@ "R" :> "r" @@ "S" :> "s" @@ "T" :> "t" @@
    "U" :> "u" @@ "V" :> "v" @@ "W" :> "w" @@ "X" :> "x" @@ "Y" :> "y" @@
    "Z" :> "z"

lower_char(c) == IF c \in DOMAIN LowerOf THEN LowerOf[c] ELSE c

\* str.lower()
lower(v) == Str([i \in 1..Len(v.s) |-> lower_char(v.s[i])])

\* str.startswith(prefix)
startswith(v, prefix) ==
    /\ Len(prefix.s) <= Len(v.s)
    /\ \A i \in 1..Len(prefix.s) : v.s[i] = prefix.s[i]

----------------------------------------------------------------------------
(* resource.ResourceType and the concrete resource classes *)

ORGANIZATION == Str(<<"o","r","g","a","n","i","z","a","t","i","o","n">>)

FOLDER == Str(<<"f","o","l","d","e","r">>)

PROJECT == Str(<<"p","r","o","j","e","c","t">>)

BACKEND_SERVICE == Str(<<"b","a","c","k","e","n","d","_","s","e","r","v","i","c","e">>)

\* a resource type string that the table does not hold
BUCKET == Str(<<"b","u","c","k","e","t">>)

\* the classification each concrete class gives its instances
ClassResourceType(cls) ==
    CASE cls = "Organization"   -> ORGANIZATION
      [] cls = "Folder"         -> FOLDER
      [] cls = "Project"        -> PROJECT
      [] cls = "BackendService" -> BACKEND_SERVICE

\* cls(resource_id, **kwargs)
Construct(cls, resource_id, kwargs) ==
    [tag |-> "instance", cls |-> cls, id |-> resource_id,
     type |-> ClassResourceType(cls), kwargs |-> kwargs]

----------------------------------------------------------------------------
(* The table *)

_RESOURCE_TYPE_MAP_dup ==
    (ORGANIZATION :> [class |-> "Organization",
                      plural |-> Str(<<"O","r","g","a","n","i","z","a","t","i","o","n","s">>),
                      can_create_resource |-> TRUE])
    @@ (FOLDER :> [class |-> "Folder",
                   plural |-> Str(<<"F","o","l","d","e","r","s">>),
                   can_create_resource |-> TRUE])
    @@ (PROJECT :> [class |-> "Project",
                    plural |-> Str(<<"P","r","o","j","e","c","t","s">>),
                    can_create_resource |-> TRUE])
    @@ (BACKEND_SERVICE :> [class |-> "BackendService",
                            plural |-> Str(<<"P","r","o","j","e","c","t","s">>),
                            can_create_resource |-> FALSE])

_RESOURCE_TYPE_MAP ==
    (ORGANIZATION :> [class |-> "Organization",
                      plural |-> Str(<<"O","r","g","a","n","i","z","a","t","i","o","n","s">>),
                      can_create_resource |-> TRUE])
    @@ (FOLDER :> [class |-> "Folder",
                   plural |-> Str(<<"F","o","l","d","e","r","s">>),
                   can_create_resource |-> TRUE])
    @@ (PROJECT :> [class |-> "Project",
                    plural |-> Str(<<"P","r","o","j","e","c","t","s">>),
                    can_create_resource |-> TRUE])
    @@ (BACKEND_SERVICE :> [class |-> "BackendService",
                            plural |-> Str(<<"B","a","c","k","e","n","d"," ","S","e","r","v","i","c","e","s">>),
                            can_create_resource |-> FALSE])

\* names bound at module level when a function body runs (lines 17-25, 27, 50-106)
ModuleGlobals ==
    {"backend_service", "folder", "org", "project", "resource", "log_util",
     "LOGGER", "_RESOURCE_TYPE_MAP",
     "create_resource", "pluralize", "type_from_name", "load_all"}

\* every order in which a dict with these keys may yield them; the language
\* leaves the order of a dict unspecified, so a call may meet any of them
Orders(keys) ==
    {o \in [1..Cardinality(keys) -> keys] :
        \A i, j \in 1..Cardinality(keys) : i # j => o[i] # o[j]}

\* dict.iteritems(): the keys still present, in the dict's order
iteritems(map, order) == SelectSeq(order, LAMBDA k : k \in DOMAIN map)

\* the orders of the four keys of the table
KeyOrders == Orders(DOMAIN _RESOURCE_TYPE_MAP)

----------------------------------------------------------------------------
(* What a call does: its outcome, the constructors it invoked, the records *)
(* it logged, and the table it leaves behind.                              *)

Return(v, map) ==
    [out |-> [kind |-> "return", val |-> v], ctor |-> <<>>, log |-> <<>>, map |-> map]

Raise(exc, map) ==
    [out |-> [kind |-> "raise", val |-> Str(<<exc>>)], ctor |-> <<>>, log |-> <<>>, map |-> map]

\* lines 50-69, written as a bug would write them: the entry is switched
\* off once it has built an instance
create_resource_mutating(map, resource_id, resource_type, kwargs) ==
    IF ~Hashable(resource_type) THEN Raise("TypeError", map)
    ELSE IF resource_type \notin DOMAIN map THEN Return(None, map)
    ELSE LET metadata == map[resource_type] IN
         IF ~metadata.can_create_resource THEN Return(None, map)
         ELSE [out  |-> [kind |-> "return",
                         val |-> Construct(metadata.class, resource_id, kwargs)],
               ctor |-> <<[cls |-> metadata.class, id |-> resource_id, kwargs |-> kwargs]>>,
               log  |-> <<>>,
               map  |-> [map EXCEPT ![resource_type].can_create_resource = FALSE]]

\* lines 50-69 without the can_create_resource test of lines 65-66
create_resource_nogate(map, resource_id, resource_type, kwargs) ==
    IF ~Hashable(resource_type) THEN Raise("TypeError", map)
    ELSE IF resource_type \notin DOMAIN map THEN Return(None, map)
    ELSE LET metadata == map[resource_type] IN
         [out  |-> [kind |-> "return",
                    val |-> Construct(metadata.class, resource_id, kwargs)],
          ctor |-> <<[cls |-> metadata.class, id |-> resource_id, kwargs |-> kwargs]>>,
          log  |-> <<>>,
          map  |-> map]

\* lines 50-69 with the two parameters read the other way round
create_resource_swapped(map, resource_id, resource_type, kwargs) ==
    IF ~Hashable(resource_id) THEN Raise("TypeError", map)
    ELSE IF resource_id \notin DOMAIN map THEN Return(None, map)
    ELSE LET metadata == map[resource_id] IN
         IF ~metadata.can_create_resource THEN Return(None, map)
         ELSE [out  |-> [kind |-> "return",
                         val |-> Construct(metadata.class, resource_type, kwargs)],
               ctor |-> <<[cls |-> metadata.class, id |-> resource_type, kwargs |-> kwargs]>>,
               log  |-> <<>>,
               map  |-> map]

\* def create_resource(resource_id, resource_type, **kwargs)
create_resource(map, resource_id, resource_type, kwargs) ==
    IF ~Hashable(resource_type) THEN Raise("TypeError", map)
    ELSE IF resource_type \notin DOMAIN map THEN Return(None, map)
    ELSE LET metadata == map[resource_type] IN   \* rebinds the local name only
         IF ~metadata.can_create_resource THEN Return(None, map)
         ELSE [out  |-> [kind |-> "return",
                         val |-> Construct(metadata.class, resource_id, kwargs)],
               ctor |-> <<[cls |-> metadata.class, id |-> resource_id, kwargs |-> kwargs]>>,
               log  |-> <<>>,
               map  |-> map]

\* lines 71-84 returning the label in lower case
pluralize_lower(map, resource_type) ==
    IF ~Hashable(resource_type) THEN Raise("TypeError", map)
    ELSE IF resource_type \notin DOMAIN map THEN Return(None, map)
    ELSE Return(lower(map[resource_type].plural), map)

\* lines 71-84 with .pop(resource_type) in place of .get(resource_type)
pluralize_pop(map, resource_type) ==
    IF ~Hashable(resource_type) THEN Raise("TypeError", map)
    ELSE IF resource_type \notin DOMAIN map THEN Return(None, map)
    ELSE Return(map[resource_type].plural,
                [k \in DOMAIN map \ {resource_type} |-> map[k]])

\* def pluralize(resource_type)
pluralize(map, resource_type) ==
    IF ~Hashable(resource_type) THEN Raise("TypeError", map)
    ELSE IF resource_type \notin DOMAIN map THEN Return(None, map)
    ELSE Return(map[resource_type].plural, map)

RECURSIVE first_match_nolower(_, _, _)
\* lines 99-103 comparing against the label as configured
first_match_nolower(items, map, resource_name) ==
    IF items = <<>> THEN None
    ELSE LET resource_type == Head(items)
             metadata == map[resource_type]
         IN IF startswith(resource_name, metadata.plural)
            THEN resource_type
            ELSE first_match_nolower(Tail(items), map, resource_name)

RECURSIVE first_match(_, _, _)
\* the loop of lines 99-103 over the items still to visit
first_match(items, map, resource_name) ==
    IF items = <<>> THEN None
    ELSE LET resource_type == Head(items)
             metadata == map[resource_type]
         IN IF startswith(resource_name, lower(metadata.plural))
            THEN resource_type
            ELSE first_match(Tail(items), map, resource_name)

\* lines 86-103 lowercasing the name before the comparison
type_from_name_lowername(map, order, resource_name) ==
    IF ~Truthy(resource_name) THEN Return(None, map)
    ELSE IF resource_name.tag # "str" THEN Raise("AttributeError", map)
    ELSE Return(first_match(iteritems(map, order), map, lower(resource_name)), map)

\* lines 86-103 without the test of lines 96-97
type_from_name_noguard(map, order, resource_name) ==
    IF resource_name.tag # "str" THEN Raise("AttributeError", map)
    ELSE Return(first_match(iteritems(map, order), map, resource_name), map)

\* def type_from_name(resource_name)
type_from_name(map, order, resource_name) ==
    IF ~Truthy(resource_name) THEN Return(None, map)
    ELSE IF resource_name.tag # "str" THEN Raise("AttributeError", map)
    ELSE Return(first_match(iteritems(map, order), map, resource_name), map)

\* def load_all(resource_class_name); env is what the named class offers:
\* whether its instances have a dao attribute and what dao().get_all() yields
load_all(map, resource_class_name, env) ==
    IF "class_loader_util" \notin ModuleGlobals
    THEN Raise("NameError", map)
    ELSE IF env.dao
         THEN Return([tag |-> "list", s |-> env.rows], map)
         ELSE [out |-> [kind |-> "return", val |-> None],
               ctor |-> <<>>,
               log |-> <<[level |-> "warn", arg |-> resource_class_name]>>,
               map |-> map]

----------------------------------------------------------------------------
(* Inputs *)

IdChars == {"1"}

\* resource ids: the non-empty strings over IdChars up to MaxIdLen characters
Ids == {Str(s) : s \in UNION {[1..n -> IdChars] : n \in 1..MaxIdLen}}

\* registered and unregistered resource type strings
TypeStrs == {ORGANIZATION, FOLDER, PROJECT, BACKEND_SERVICE, BUCKET}

\* values that are not resource type strings at all
Malformed == {None, EmptyList, Int5}

KwargSets == {{}, {<<"display_name", "n">>}}

\* positional argument pairs: (id, type) as the def orders them and
\* (type, id) as the interface description orders them
ArgPairs(types) == (Ids \X types) \cup (TypeStrs \X Ids)

Slash == Str(<<"/">>)

Concat(a, b) == Str(a.s \o b.s)

Labels == {_RESOURCE_TYPE_MAP[k].plural : k \in DOMAIN _RESOURCE_TYPE_MAP}

\* resource names: "{label}/{id}" with the label lowercased, "{label}/1" with
\* the label as configured, a bare lowercased label, a lowercased label cut short, an unknown prefix,
\* the empty string and None
Names ==
    {Concat(Concat(lower(l), Slash), i) : l \in Labels, i \in Ids}
    \cup {Concat(Concat(l, Slash), Str(<<"1">>)) : l \in Labels}
    \cup {lower(l) : l \in Labels}
    \cup {Str(SubSeq(lower(l).s, 1, Len(l.s) - 1)) : l \in Labels}
    \cup {Str(<<"u","n","k","n","o","w","n","/","x">>), Str(<<>>), None}

ClassNames == {Str(<<"Organization">>), Str(<<"BackendService">>)}

Envs == {[dao |-> d, rows |-> <<"row">>] : d \in BOOLEAN}

NoCall == [op |-> "none", args |-> <<>>, kwargs |-> {}, env |-> {}]

NoMemo == [call |-> NoCall, out |-> [kind |-> "none", val |-> None], age |-> "this"]

----------------------------------------------------------------------------
(* The state machine: one action per function of the module *)

Init ==
    /\ resource_type_map = _RESOURCE_TYPE_MAP
    /\ call = NoCall
    /\ outcome = [kind |-> "none", val |-> None]
    /\ constructed = <<>>
    /\ logged = <<>>
    /\ memo = NoMemo

\* what memo may hold after call c ended with outcome out: while nothing is
\* remembered the call may be remembered or not; a remembered call is "this"
\* call, after one more call the "next" one follows it, after that it is an
\* "earlier" one
MemoAfter(c, out) ==
    IF memo = NoMemo
    THEN {NoMemo, [call |-> c, out |-> out, age |-> "this"]}
    ELSE {[memo EXCEPT !.age = IF memo.age = "this" THEN "next" ELSE "earlier"]}

\* the effect e of call c becomes the state
Apply(c, e) ==
    /\ call' = c
    /\ outcome' = e.out
    /\ constructed' = e.ctor
    /\ logged' = e.log
    /\ resource_type_map' = e.map
    /\ memo' \in MemoAfter(c, e.out)

CreateResource(types) ==
    \E p \in ArgPairs(types), kwargs \in KwargSets :
        Apply([op |-> "create_resource", args |-> p, kwargs |-> kwargs, env |-> {}],
              create_resource(resource_type_map, p[1], p[2], kwargs))

Pluralize(types) ==
    \E resource_type \in types :
        Apply([op |-> "pluralize", args |-> <<resource_type>>, kwargs |-> {}, env |-> {}],
              pluralize(resource_type_map, resource_type))

TypeFromName(names) ==
    \E resource_name \in names :
        \E e \in {type_from_name(resource_type_map, order, resource_name) :
                        order \in KeyOrders} :
            Apply([op |-> "type_from_name", args |-> <<resource_name>>, kwargs |-> {},
                   env |-> {}], e)

LoadAll ==
    \E resource_class_name \in ClassNames, env \in Envs :
        Apply([op |-> "load_all", args |-> <<resource_class_name>>, kwargs |-> {},
               env |-> {env}],
              load_all(resource_type_map, resource_class_name, env))

\* callers that pass what the docstrings ask for: str types, str or absent names
Next ==
    \/ CreateResource(TypeStrs)
    \/ Pluralize(TypeStrs)
    \/ TypeFromName(Names)
    \/ LoadAll

Spec == Init /\ [][Next]_vars

\* callers that pass any value
NextAny ==
    \/ CreateResource(TypeStrs \cup Malformed)
    \/ Pluralize(TypeStrs \cup Malformed)
    \/ TypeFromName(Names \cup {EmptyList, Int5})
    \/ LoadAll

SpecAny == Init /\ [][NextAny]_vars

----------------------------------------------------------------------------
(* The interface description's vocabulary, written out independently of    *)
(* the operators above                                                     *)

CreatableTypes == {ORGANIZATION, FOLDER, PROJECT}

RegisteredTypes == {ORGANIZATION, FOLDER, PROJECT, BACKEND_SERVICE}

RegisteredClass(t) ==
    CASE t = ORGANIZATION    -> "Organization"
      [] t = FOLDER          -> "Folder"
      [] t = PROJECT         -> "Project"
      [] t = BACKEND_SERVICE -> "BackendService"

PluralLabel(t) ==
    CASE t = ORGANIZATION    -> <<"O","r","g","a","n","i","z","a","t","i","o","n","s">>
      [] t = FOLDER          -> <<"F","o","l","d","e","r","s">>
      [] t = PROJECT         -> <<"P","r","o","j","e","c","t","s">>
      [] t = BACKEND_SERVICE -> <<"B","a","c","k","e","n","d"," ","S","e","r","v","i","c","e","s">>

LowerLabel(t) ==
    CASE t = ORGANIZATION    -> <<"o","r","g","a","n","i","z","a","t","i","o","n","s">>
      [] t = FOLDER          -> <<"f","o","l","d","e","r","s">>
      [] t = PROJECT         -> <<"p","r","o","j","e","c","t","s">>
      [] t = BACKEND_SERVICE -> <<"b","a","c","k","e","n","d"," ","s","e","r","v","i","c","e","s">>

IsPrefixOf(p, q) == Len(p) <= Len(q) /\ SubSeq(q, 1, Len(p)) = p

Absent == [kind |-> "return", val |-> None]

Returns(v) == outcome = [kind |-> "return", val |-> v]

CoreOps == {"create_resource", "pluralize", "type_from_name"}

OneId == Str(<<"1">>)

----------------------------------------------------------------------------
(* C1 *)

\* C1 as stated: create_resource called with (resource_type, id), the order
\* of the interface description, for a creatable resource_type and a resource
\* id, returns an instance whose classification is resource_type.
C1_SpecOrderBuilds ==
    (call.op = "create_resource" /\ call.args[1] \in CreatableTypes
                                 /\ call.args[2] \in Ids)
    => /\ outcome.kind = "return"
       /\ outcome.val.tag = "instance"
       /\ outcome.val.type = call.args[1]

\* C1 amended: create_resource called with (id, resource_type), the order of
\* the def, for a creatable resource_type and any first argument, returns a
\* non-absent instance built by the constructor registered for resource_type
\* from that first argument and the extra parameters, classified resource_type.
C1_DefOrderBuilds ==
    (call.op = "create_resource" /\ call.args[2] \in CreatableTypes)
    => /\ outcome.kind = "return"
       /\ outcome.val # None
       /\ outcome.val.tag = "instance"
       /\ outcome.val.cls = RegisteredClass(call.args[2])
       /\ outcome.val.type = call.args[2]
       /\ outcome.val.id = call.args[1]
       /\ outcome.val.kwargs = call.kwargs
       /\ constructed = <<[cls |-> RegisteredClass(call.args[2]),
                          id |-> call.args[1], kwargs |-> call.kwargs]>>

C1_Witness ==
    /\ call.op = "create_resource"
    /\ call.args = <<OneId, FOLDER>>
    /\ call.kwargs # {}
    /\ outcome.kind = "return"
    /\ outcome.val.tag = "instance"
    /\ outcome.val.type = FOLDER

----------------------------------------------------------------------------
(* C2 *)

\* C2: create_resource returns absence and invokes no constructor when
\* resource_type is not a key of the table and when it is BACKEND_SERVICE
\* (registered, not creatable), whatever the id and the extra parameters;
\* both cases end in the same result.
C2_MissAndGateAbsent ==
    (call.op = "create_resource"
        /\ (call.args[2] \notin RegisteredTypes \/ call.args[2] = BACKEND_SERVICE))
    => /\ outcome = Absent
       /\ constructed = <<>>

C2_Witness ==
    /\ memo.call.op = "create_resource"
    /\ memo.call.args = <<OneId, BUCKET>>
    /\ call.op = "create_resource"
    /\ call.args = <<OneId, BACKEND_SERVICE>>
    /\ call.kwargs # {}
    /\ outcome = Absent
    /\ memo.out = outcome

----------------------------------------------------------------------------
(* C3 *)

\* C3: pluralize returns the configured plural label of a registered type,
\* case unchanged ("Organizations", "Folders", "Projects", "Backend
\* Services"), and absence for a resource_type that is not a key of the table.
C3_PluralizeLabel ==
    call.op = "pluralize"
    => /\ call.args[1] \in RegisteredTypes
            => Returns(Str(PluralLabel(call.args[1])))
       /\ call.args[1] \notin RegisteredTypes => outcome = Absent

C3_Witness ==
    /\ call.op = "pluralize"
    /\ call.args[1] = BACKEND_SERVICE
    /\ Returns(Str(<<"B","a","c","k","e","n","d"," ","S","e","r","v","i","c","e","s">>))
    /\ memo.call.op = "pluralize"
    /\ memo.call.args[1] = BUCKET
    /\ memo.out = Absent

----------------------------------------------------------------------------
(* C4 *)

\* C4: round trip: for every registered type t and resource id i,
\* type_from_name(pluralize(t).lower() + "/" + i) returns t.
C4_RoundTrip ==
    \A t \in RegisteredTypes, i \in Ids :
        LET label == pluralize(resource_type_map, t).out.val IN
        (call.op = "type_from_name"
            /\ label.tag = "str"
            /\ call.args[1] = Concat(Concat(lower(label), Slash), i))
        => Returns(t)

C4_Witness ==
    /\ call.op = "type_from_name"
    /\ call.args[1] = Str(LowerLabel(BACKEND_SERVICE) \o <<"/", "1">>)
    /\ Returns(BACKEND_SERVICE)
    /\ memo.call.op = "pluralize"
    /\ memo.call.args[1] = BACKEND_SERVICE

----------------------------------------------------------------------------
(* C5 *)

\* C5: type_from_name(name) returns a type t only if name, cased as given,
\* starts with the lowercased plural label of t; it returns absence exactly
\* when name is empty or absent or no lowercased label is a prefix of name
\* ("unknown/x" and "Organizations/1" absent, "organizations/1" ORGANIZATION).
C5_PrefixOnly ==
    call.op = "type_from_name"
    => LET name == call.args[1]
           nomatch == \A t \in RegisteredTypes : ~IsPrefixOf(LowerLabel(t), name.s)
       IN /\ outcome.kind = "return"
          /\ outcome.val # None
                => /\ outcome.val \in RegisteredTypes
                   /\ IsPrefixOf(LowerLabel(outcome.val), name.s)
          /\ outcome.val = None <=> (name = None \/ name = Str(<<>>) \/ nomatch)
          /\ name = Str(<<"u","n","k","n","o","w","n","/","x">>) => outcome = Absent
          /\ name = Str(PluralLabel(ORGANIZATION) \o <<"/", "1">>) => outcome = Absent
          /\ name = Str(LowerLabel(ORGANIZATION) \o <<"/", "1">>) => Returns(ORGANIZATION)

C5_Witness ==
    /\ call.op = "type_from_name"
    /\ call.args[1] = Str(PluralLabel(ORGANIZATION) \o <<"/", "1">>)
    /\ outcome = Absent
    /\ memo.call.op = "type_from_name"
    /\ memo.call.args[1] = Str(LowerLabel(ORGANIZATION) \o <<"/", "1">>)
    /\ memo.out.val = ORGANIZATION

----------------------------------------------------------------------------
(* C6 *)

\* C6: load_all never ends in a raised fault; when the created instance has
\* no dao it logs one warning and returns absence; when it has one it returns
\* what get_all() produced and logs nothing.
C6_LoadAllContract ==
    call.op = "load_all"
    => \A env \in call.env :
        /\ outcome.kind # "raise"
        /\ ~env.dao => (outcome = Absent /\ Len(logged) = 1)
        /\ env.dao  => (Returns([tag |-> "list", s |-> env.rows]) /\ logged = <<>>)

----------------------------------------------------------------------------
(* C7 *)

\* C7: a call of create_resource, pluralize or type_from_name ends as an
\* earlier call with identical arguments ended, whatever calls were made
\* before the earlier one or between the two.
C7_Idempotent ==
    (call.op \in CoreOps /\ memo.call = call) => outcome = memo.out

C7_Witness ==
    /\ call.op = "create_resource"
    /\ call.args = <<OneId, PROJECT>>
    /\ memo.call = call
    /\ memo.age = "earlier"
    /\ outcome.val.tag = "instance"

----------------------------------------------------------------------------
(* C8 *)

\* C8 as stated: none of the three core operations ends in a raised fault,
\* and an out-of-range or malformed resource_type yields absence like an
\* unregistered one.
C8_NeverRaises ==
    call.op \in CoreOps
    => /\ outcome.kind = "return"
       /\ (call.op = "pluralize" /\ call.args[1] \notin RegisteredTypes)
            => outcome = Absent
       /\ (call.op = "create_resource" /\ call.args[2] \notin RegisteredTypes)
            => outcome = Absent

\* C8 amended: with a hashable resource_type, pluralize never raises and
\* create_resource does not raise on a miss, and both return absence when the
\* resource_type is not a key (create_resource also when it is not creatable);
\* type_from_name given a str, an empty or an absent name never raises and
\* returns absence when no lowercased label is a prefix; an unhashable
\* resource_type ends create_resource and pluralize in TypeError, and a
\* non-empty name that is not a str ends type_from_name in AttributeError.
C8_HashableNeverRaises ==
    /\ call.op = "pluralize"
        => LET t == call.args[1] IN
           /\ Hashable(t) => outcome.kind = "return"
           /\ (Hashable(t) /\ t \notin RegisteredTypes) => outcome = Absent
           /\ ~Hashable(t) => outcome = [kind |-> "raise", val |-> Str(<<"TypeError">>)]
    /\ call.op = "create_resource"
        => LET t == call.args[2] IN
           /\ (Hashable(t) /\ t \notin CreatableTypes) => outcome = Absent
           /\ ~Hashable(t) => outcome = [kind |-> "raise", val |-> Str(<<"TypeError">>)]
    /\ call.op = "type_from_name"
        => LET name == call.args[1] IN
           /\ (name.tag = "str" \/ ~Truthy(name)) => outcome.kind = "return"
           /\ (~Truthy(name)
               \/ (name.tag = "str"
                   /\ \A t \in RegisteredTypes : ~IsPrefixOf(LowerLabel(t), name.s)))
                => outcome = Absent
           /\ (Truthy(name) /\ name.tag # "str")
                => outcome = [kind |-> "raise", val |-> Str(<<"AttributeError">>)]

C8_Witness ==
    /\ memo.call.op = "pluralize"
    /\ memo.call.args[1] = EmptyList
    /\ memo.out.kind = "raise"
    /\ call.op = "create_resource"
    /\ call.args = <<OneId, Int5>>
    /\ outcome = Absent

----------------------------------------------------------------------------
(* C9 *)

\* C9: after any sequence of calls the table has exactly its four initial
\* keys, each with its constructor, plural label and creatable flag unchanged.
C9_TableUnchanged ==
    /\ DOMAIN resource_type_map = RegisteredTypes
    /\ \A t \in RegisteredTypes :
        /\ resource_type_map[t].class = RegisteredClass(t)
        /\ resource_type_map[t].plural = Str(PluralLabel(t))
        /\ resource_type_map[t].can_create_resource = (t \in CreatableTypes)

C9_Witness ==
    /\ memo.call.op = "pluralize"
    /\ memo.call.args[1] = ORGANIZATION
    /\ memo.age = "earlier"
    /\ call.op = "create_resource"
    /\ call.args[2] = ORGANIZATION
    /\ outcome.val.tag = "instance"
    /\ resource_type_map[ORGANIZATION].can_create_resource

----------------------------------------------------------------------------
(* C10 *)

\* C10: no lowercased plural label of the table is a prefix of another, so
\* at most one entry matches any name and type_from_name ends the same way
\* under every iteration order of the table.
C10_OrderIndependent ==
    /\ \A k1, k2 \in DOMAIN resource_type_map :
        k1 # k2 => ~startswith(lower(resource_type_map[k1].plural),
                               lower(resource_type_map[k2].plural))
    /\ (call.op = "type_from_name" /\ call.args[1].tag = "str")
        => /\ Cardinality({k \in DOMAIN resource_type_map :
                    startswith(call.args[1], lower(resource_type_map[k].plural))}) <= 1
           /\ \A order \in KeyOrders :
                type_from_name(resource_type_map, order, call.args[1]).out = outcome

C10_Witness ==
    /\ call.op = "type_from_name"
    /\ call.args[1] = Str(LowerLabel(PROJECT) \o <<"/", "1">>)
    /\ Returns(PROJECT)
    /\ memo.call = call
    /\ memo.age = "next"

====
